---------------------------- MODULE Spec2Model ----------------------------
(***************************************************************************)
(* Model of highergov_server.py: the query-translation and response-       *)
(* normalization layer of the HigherGov MCP adapter.                       *)
(*                                                                         *)
(* Python values are tagged records [k |-> kind, <payload>], each kind     *)
(* with a payload field of its own; a dict's payload is a function from   *)
(* its present keys to values, a list's a sequence.  An exception leaving  *)
(* a handler is the value Raised(e).                                       *)
EXTENDS Integers, Sequences, FiniteSets, TLC

(* ------------------------------ bounds -------------------------------- *)
\* arguments a caller passes explicitly besides the mandatory ones
MaxArgs == 2
\* records in the result list of an upstream response
MaxResults == 2
\* elements of a list-valued upstream field
\* invocations in flight at once
MaxTasks == 2

MaxLen == 2

(* -------------------------- Python values ----------------------------- *)
PyNone == [k |-> "none"]
PyStr(s) == [k |-> "str", s |-> s]
PyInt(n) == [k |-> "int", n |-> n]
PyBool(b) == [k |-> "bool", b |-> b]
PyDict(f) == [k |-> "dict", d |-> f]
PyList(q) == [k |-> "list", l |-> q]
Raised(e) == [k |-> "raise", e |-> e]

EmptyMap == [x \in {} |-> PyNone]
EmptyDict == PyDict(EmptyMap)
EmptyList == PyList(<<>>)
AttributeError == Raised("AttributeError")
TypeError == Raised("TypeError")

IsDict(x) == x.k = "dict"
IsRaised(x) == x.k = "raise"

\* bool(x)
Truthy(x) ==
    CASE x.k = "none" -> FALSE
      [] x.k = "bool" -> x.b
      [] x.k = "int" -> x.n # 0
      [] x.k = "str" -> x.s # ""
      [] x.k = "dict" -> DOMAIN x.d # {}
      [] x.k = "list" -> Len(x.l) > 0

\* x or y
Or(x, y) == IF Truthy(x) THEN x ELSE y

\* any([...]) over the values of the named arguments
AnyOf(a, names) == \E p \in names : Truthy(a[p])

\* d.get(key, default) on the payload of a dict
DictGet(d, key, default) == IF key \in DOMAIN d THEN d[key] ELSE default

\* x.get(key, default): only a dict has the method
GetOr(x, key, default) ==
    IF IsDict(x) THEN DictGet(x.d, key, default) ELSE AttributeError

\* x.get(key)
Get(x, key) == GetOr(x, key, PyNone)

\* x.get(key) if isinstance(x, dict) else other
GetIfDict(x, key, other) == IF IsDict(x) THEN DictGet(x.d, key, PyNone) ELSE other

\* a dict display {key: value, ...}: evaluating any value may raise
Display(fields) ==
    IF \E key \in DOMAIN fields : IsRaised(fields[key])
    THEN (CHOOSE r \in {fields[key] : key \in DOMAIN fields} : IsRaised(r))
    ELSE PyDict(fields)

\* a display that also passes through every key of the upstream record
CopyThrough(rec, names) ==
    IF IsDict(rec)
    THEN [out \in DOMAIN names |-> Get(rec, names[out])] @@ rec.d
    ELSE [out \in DOMAIN names |-> Get(rec, names[out])]

\* {out: rec.get(in)} for each out -> in of names
Copy(rec, names) == [out \in DOMAIN names |-> Get(rec, names[out])]

\* the elements a for loop over seq visits
Items(seq) == IF seq.k = "list" THEN seq.l ELSE << >>

\* the loop "for r in data.get("results", []): out.append({...})", out[i]
\* being the display built from the i-th element: the first display that
\* raises ends the loop
ForEach(seq, out) ==
    IF seq.k # "list" THEN TypeError
    ELSE IF \E i \in DOMAIN out : IsRaised(out[i])
         THEN out[CHOOSE i \in DOMAIN out :
                     /\ IsRaised(out[i])
                     /\ \A j \in 1..(i - 1) : ~IsRaised(out[j])]
         ELSE PyList(out)

Results(data) == DictGet(data.d, "results", EmptyList)

\* data.get("meta", {}).get("total_count", 0)
TotalCount(data) ==
    GetOr(DictGet(data.d, "meta", EmptyDict), "total_count", PyInt(0))

(* ----------------------------- transport ------------------------------ *)
HIGHERGOV_API_KEY == PyStr("hg-secret")
MaxPageSize == 100

\* a variant that forwards page_size as given
ForwardPageSize(ps) == ps

\* min(page_size, 100)
ClampPageSize(ps) == PyInt(IF ps.n < MaxPageSize THEN ps.n ELSE MaxPageSize)

\* a variant that forwards every parameter, None included
KeepNone(params) == params

\* {k: v for k, v in params.items() if v is not None}
StripNone(params) ==
    [key \in {q \in DOMAIN params : params[q] # PyNone} |-> params[key]]

\* the request hg_get issues: the stripped parameters plus the API key
hg_get(endpoint, params) ==
    [endpoint |-> endpoint,
     params |-> [key \in DOMAIN StripNone(params) \cup {"api_key"} |->
                    IF key = "api_key" THEN HIGHERGOV_API_KEY
                    ELSE StripNone(params)[key]]]

(* ------------------------ search_opportunities ------------------------ *)
search_opportunities_required ==
    {"captured_date", "posted_date", "agency_key", "opp_key", "search_id"}

\* the captured_date local after "if not any([...]): captured_date = today()"
search_opportunities_captured_date(a, now) ==
    IF ~AnyOf(a, search_opportunities_required) THEN PyStr(now)
    ELSE a.captured_date

search_opportunities_query(a, now) ==
    [captured_date |-> search_opportunities_captured_date(a, now),
     posted_date |-> a.posted_date,
     agency_key |-> a.agency_key,
     opp_key |-> a.opp_key,
     search_id |-> a.search_id,
     source_type |-> a.source_type,
     ordering |-> Or(a.ordering, PyStr("-captured_date")),
     page_number |-> a.page_number,
     page_size |-> ClampPageSize(a.page_size)]

search_opportunities_record(opp) ==
    LET agency == Or(Get(opp, "agency"), EmptyDict)
        naics == Or(Get(opp, "naics_code"), EmptyDict)
        psc == Or(Get(opp, "psc_code"), EmptyDict)
        contact == Or(Get(opp, "primary_contact_email"), EmptyDict)
    IN IF ~IsDict(opp) THEN AttributeError ELSE Display(
        Copy(opp, [opp_key |-> "opp_key", title |-> "title",
                   description |-> "description_text",
                   source_type |-> "source_type", source_id |-> "source_id",
                   posted_date |-> "posted_date",
                   captured_date |-> "captured_date", due_date |-> "due_date",
                   set_aside |-> "set_aside",
                   estimated_value_low |-> "val_est_low",
                   estimated_value_high |-> "val_est_high",
                   highergov_url |-> "path", source_url |-> "source_path"])
        @@ [agency_name |-> Get(agency, "agency_name"),
            agency_key |-> Get(agency, "agency_key"),
            naics_code |-> Get(naics, "naics_code"),
            psc_code |-> Get(psc, "psc_code"),
            place_of_performance |->
                Display(Copy(opp, [state |-> "pop_state", city |-> "pop_city",
                                   zip |-> "pop_zip"])),
            contact_name |-> Get(contact, "contact_name"),
            contact_email |-> Get(contact, "contact_email"),
            contact_phone |-> Get(contact, "contact_phone")])

search_opportunities_return(a, data) ==
    LET opportunities == ForEach(Results(data),
            [i \in DOMAIN Items(Results(data)) |->
                search_opportunities_record(Items(Results(data))[i])])
    IN IF IsRaised(opportunities) THEN opportunities
       ELSE Display([total_count |-> TotalCount(data),
                     page |-> a.page_number,
                     page_size |-> a.page_size,
                     opportunities |-> opportunities])

(* -------------------------- search_contracts -------------------------- *)
search_contracts_required ==
    {"naics_code", "psc_code", "awardee_key", "awardee_uei",
     "awarding_agency_key", "award_id", "search_id", "last_modified_date"}

search_contracts_rejects(a) == ~AnyOf(a, search_contracts_required)

search_contracts_error ==
    PyDict([error |-> PyStr("At least one filter parameter is required"),
            contracts |-> EmptyList])

search_contracts_query(a) ==
    [naics_code |-> a.naics_code,
     psc_code |-> a.psc_code,
     awardee_key |-> a.awardee_key,
     awardee_uei |-> a.awardee_uei,
     awarding_agency_key |-> a.awarding_agency_key,
     award_id |-> a.award_id,
     search_id |-> a.search_id,
     last_modified_date |-> a.last_modified_date,
     ordering |-> Or(a.ordering, PyStr("-last_modified_date")),
     page_number |-> a.page_number,
     page_size |-> ClampPageSize(a.page_size)]

search_contracts_record(c) ==
    LET awardee == Or(Get(c, "awardee"), EmptyDict)
        agency == Or(Get(c, "awarding_agency"), EmptyDict)
        naics == Or(Get(c, "naics_code"), EmptyDict)
        psc == Or(Get(c, "psc_code"), EmptyDict)
    IN IF ~IsDict(c) THEN AttributeError ELSE Display(
        Copy(c, [contract_key |-> "contract_key", award_id |-> "award_id",
                 title |-> "title", description |-> "description",
                 obligated_amount |-> "obligated_amount",
                 potential_value |-> "potential_value",
                 base_and_all_options |-> "base_and_all_options_value",
                 start_date |-> "period_of_performance_start_date",
                 end_date |-> "period_of_performance_current_end_date",
                 place_of_performance_state |-> "place_of_performance_state",
                 contract_type |-> "type_of_contract",
                 set_aside |-> "type_of_set_aside",
                 last_modified_date |-> "last_modified_date",
                 highergov_url |-> "path"])
        @@ [awarding_agency |-> Get(agency, "agency_name"),
            awardee_name |-> Get(awardee, "clean_name"),
            awardee_uei |-> Get(awardee, "uei"),
            awardee_cage |-> Get(awardee, "cage_code"),
            naics_code |-> GetIfDict(naics, "naics_code", naics),
            psc_code |-> GetIfDict(psc, "psc_code", psc)])

search_contracts_return(a, data) ==
    LET contracts == ForEach(Results(data),
            [i \in DOMAIN Items(Results(data)) |->
                search_contracts_record(Items(Results(data))[i])])
    IN IF IsRaised(contracts) THEN contracts
       ELSE Display([total_count |-> TotalCount(data),
                     page |-> a.page_number,
                     contracts |-> contracts])

(* ---------------------------- search_grants --------------------------- *)
search_grants_required ==
    {"awardee_key", "awardee_uei", "cfda_program_number",
     "awarding_agency_key", "search_id", "last_modified_date"}

search_grants_rejects(a) == ~AnyOf(a, search_grants_required)

search_grants_error ==
    PyDict([error |-> PyStr("At least one filter parameter is required"),
            grants |-> EmptyList])

search_grants_query(a) ==
    [awardee_key |-> a.awardee_key,
     awardee_uei |-> a.awardee_uei,
     cfda_program_number |-> a.cfda_program_number,
     awarding_agency_key |-> a.awarding_agency_key,
     search_id |-> a.search_id,
     last_modified_date |-> a.last_modified_date,
     ordering |-> Or(a.ordering, PyStr("-last_modified_date")),
     page_number |-> a.page_number,
     page_size |-> ClampPageSize(a.page_size)]

search_grants_record(g) ==
    LET awardee == Or(Get(g, "awardee"), EmptyDict)
        agency == Or(Get(g, "awarding_agency"), EmptyDict)
    IN IF ~IsDict(g) THEN AttributeError ELSE Display(
        Copy(g, [grant_key |-> "grant_key", award_id |-> "award_id",
                 title |-> "title",
                 obligated_amount |-> "obligated_amount",
                 start_date |-> "period_of_performance_start_date",
                 end_date |-> "period_of_performance_current_end_date",
                 cfda_number |-> "cfda_program_number",
                 cfda_title |-> "cfda_program_title",
                 place_of_performance_state |-> "place_of_performance_state",
                 last_modified_date |-> "last_modified_date",
                 highergov_url |-> "path"])
        @@ [awarding_agency |-> Get(agency, "agency_name"),
            awardee_name |-> Get(awardee, "clean_name"),
            awardee_uei |-> Get(awardee, "uei")])

search_grants_return(a, data) ==
    LET grants == ForEach(Results(data),
            [i \in DOMAIN Items(Results(data)) |->
                search_grants_record(Items(Results(data))[i])])
    IN IF IsRaised(grants) THEN grants
       ELSE Display([total_count |-> TotalCount(data),
                     page |-> a.page_number,
                     grants |-> grants])

(* ------------------------- awardee helpers ---------------------------- *)
\* [x.get(key) if isinstance(x, dict) else x for x in codes]
CodeList(codes, key) ==
    IF codes.k # "list" THEN TypeError
    ELSE PyList([i \in 1..Len(codes.l) |->
                    GetIfDict(codes.l[i], key, codes.l[i])])

\* the entries of bus_type_info the loops keep: "if isinstance(bt, dict)"
CertEntries(info) == SelectSeq(info.l, IsDict)

Cert(bt) ==
    PyDict([type |-> Get(bt, "bus_type"),
            description |-> Get(bt, "bus_type_description"),
            sba_certified |-> GetOr(bt, "cert_flag", PyBool(FALSE))])

Descriptions(entries) ==
    PyList([i \in 1..Len(entries) |-> Get(entries[i], "bus_type_description")])

\* certifications / all_certs
Certifications(info) ==
    IF info.k # "list" THEN TypeError
    ELSE PyList([i \in 1..Len(CertEntries(info)) |-> Cert(CertEntries(info)[i])])

\* "if bt.get("cert_flag"): sba_certified.append(...)"
SbaCertified(info) ==
    IF info.k # "list" THEN TypeError
    ELSE Descriptions(SelectSeq(CertEntries(info),
                                LAMBDA bt : Truthy(Get(bt, "cert_flag"))))

\* a variant that appends every entry, as if the "else:" were missing
SelfCertifiedAll(info) ==
    IF info.k # "list" THEN TypeError ELSE Descriptions(CertEntries(info))

\* "else: self_certified.append(...)"
SelfCertified(info) ==
    IF info.k # "list" THEN TypeError
    ELSE Descriptions(SelectSeq(CertEntries(info),
                                LAMBDA bt : ~Truthy(Get(bt, "cert_flag"))))

\* str(x) inside an f-string
Format(x) ==
    CASE x.k = "none" -> "None"
      [] x.k = "str" -> x.s
      [] x.k = "int" -> ToString(x.n)
      [] x.k = "bool" -> IF x.b THEN "True" ELSE "False"

RECURSIVE LStrip(_)
LStrip(s) ==
    IF Len(s) > 0 /\ SubSeq(s, 1, 1) = " " THEN LStrip(SubSeq(s, 2, Len(s)))
    ELSE s

RECURSIVE RStrip(_)
RStrip(s) ==
    IF Len(s) > 0 /\ SubSeq(s, Len(s), Len(s)) = " "
    THEN RStrip(SubSeq(s, 1, Len(s) - 1))
    ELSE s

\* s.strip()
Strip(s) == RStrip(LStrip(s))

\* f"{a.get('govt_bus_poc_first_name', '')} {a.get('govt_bus_poc_last_name', '')}".strip() or None
PocName(a) ==
    Or(PyStr(Strip(Format(GetOr(a, "govt_bus_poc_first_name", PyStr("")))
                   \o " "
                   \o Format(GetOr(a, "govt_bus_poc_last_name", PyStr(""))))),
       PyNone)

PhysicalAddress(a) ==
    Display(Copy(a, [line1 |-> "physical_address_line_1",
                     line2 |-> "physical_address_line_2",
                     city |-> "physical_address_city",
                     state |-> "physical_address_province_or_state",
                     zip |-> "physical_address_zip_postal_code",
                     country |-> "physical_address_country_code"]))

(* --------------------------- search_awardees -------------------------- *)
search_awardees_query(a) ==
    [cage_code |-> a.cage_code,
     uei |-> a.uei,
     awardee_key_parent |-> a.awardee_key_parent,
     primary_naics |-> a.primary_naics,
     registration_last_update_date |-> a.registration_last_update_date,
     ordering |-> a.ordering,
     page_number |-> a.page_number,
     page_size |-> ClampPageSize(a.page_size)]

search_awardees_record(a) ==
    LET primary_naics_obj == Or(Get(a, "primary_naics"), EmptyDict)
        naics_list == Or(Get(a, "naics_codes"), EmptyList)
        psc_list == Or(Get(a, "psc_codes"), EmptyList)
        bus_type_info == Or(Get(a, "bus_type_info"), EmptyList)
        parent == Or(Get(a, "awardee_key_parent"), EmptyDict)
    IN IF ~IsDict(a) THEN AttributeError ELSE Display(
        Copy(a, [awardee_key |-> "awardee_key", name |-> "clean_name",
                 legal_name |-> "legal_business_name", dba_name |-> "dba_name",
                 division_name |-> "division_name", cage_code |-> "cage_code",
                 uei |-> "uei", website |-> "website",
                 year_founded |-> "year_founded",
                 employee_count |-> "employee_count",
                 highergov_url |-> "path"])
        @@ [address |-> PhysicalAddress(a),
            primary_naics |->
                GetIfDict(primary_naics_obj, "naics_code", primary_naics_obj),
            naics_codes |-> CodeList(naics_list, "naics_code"),
            psc_codes |-> CodeList(psc_list, "psc_code"),
            certifications |-> Certifications(bus_type_info),
            parent_company |->
                IF Truthy(parent)
                THEN PyDict([awardee_key |-> GetIfDict(parent, "awardee_key", PyNone),
                             name |-> GetIfDict(parent, "clean_name", PyNone)])
                ELSE PyNone,
            registration |->
                Display(Copy(a, [status |-> "purpose_of_registration",
                                 initial_date |-> "initial_registration_date",
                                 expiration_date |-> "registration_expiration_date",
                                 last_update |-> "registration_last_update_date",
                                 sam_extract_code |-> "sam_extract_code"])),
            govt_poc |->
                Display([name |-> PocName(a)]
                        @@ Copy(a, [title |-> "govt_bus_poc_title",
                                    phone |-> "govt_bus_poc_phone",
                                    email |-> "govt_bus_poc_email"]))])

search_awardees_return(a, data) ==
    LET awardees == ForEach(Results(data),
            [i \in DOMAIN Items(Results(data)) |->
                search_awardees_record(Items(Results(data))[i])])
    IN IF IsRaised(awardees) THEN awardees
       ELSE Display([total_count |-> TotalCount(data),
                     page |-> a.page_number,
                     awardees |-> awardees])

(* ------------------------- get_awardee_details ------------------------ *)
get_awardee_details_required == {"awardee_key", "cage_code", "uei"}

get_awardee_details_rejects(a) == ~AnyOf(a, get_awardee_details_required)

get_awardee_details_error ==
    PyDict([error |->
        PyStr("At least one identifier required: awardee_key, cage_code, or uei")])

get_awardee_details_query(a) ==
    [awardee_key |-> a.awardee_key,
     cage_code |-> a.cage_code,
     uei |-> a.uei,
     page_size |-> PyInt(1)]

get_awardee_details_record(a) ==
    LET primary_naics_obj == Or(Get(a, "primary_naics"), EmptyDict)
        naics_list == Or(Get(a, "naics_codes"), EmptyList)
        psc_list == Or(Get(a, "psc_codes"), EmptyList)
        bus_type_info == Or(Get(a, "bus_type_info"), EmptyList)
        parent == Or(Get(a, "awardee_key_parent"), EmptyDict)
    IN IF ~IsDict(a) THEN AttributeError ELSE Display(
        Copy(a, [awardee_key |-> "awardee_key", name |-> "clean_name",
                 legal_name |-> "legal_business_name", dba_name |-> "dba_name",
                 division_name |-> "division_name", cage_code |-> "cage_code",
                 uei |-> "uei", duns |-> "duns", website |-> "website",
                 highergov_url |-> "path"])
        @@ [address |-> PhysicalAddress(a),
            mailing_address |->
                Display(Copy(a, [line1 |-> "mailing_address_line_1",
                                 line2 |-> "mailing_address_line_2",
                                 city |-> "mailing_address_city",
                                 state |-> "mailing_address_province_or_state",
                                 zip |-> "mailing_address_zip_postal_code",
                                 country |-> "mailing_address_country_code"])),
            company_info |->
                Display(Copy(a, [year_founded |-> "year_founded",
                                 employee_count |-> "employee_count",
                                 entity_type |-> "entity_type",
                                 organization_type |-> "organization_type",
                                 state_of_incorporation |-> "state_of_incorporation",
                                 country_of_incorporation |-> "country_of_incorporation"])),
            naics_codes |->
                Display([primary |->
                            GetIfDict(primary_naics_obj, "naics_code", primary_naics_obj),
                         primary_description |->
                            GetIfDict(primary_naics_obj, "naics_title", PyNone),
                         all_codes |-> CodeList(naics_list, "naics_code")]),
            psc_codes |-> CodeList(psc_list, "psc_code"),
            certifications |->
                Display([all |-> Certifications(bus_type_info),
                         sba_certified |-> SbaCertified(bus_type_info),
                         self_certified |-> SelfCertified(bus_type_info)]),
            parent_company |->
                IF Truthy(parent)
                THEN PyDict([awardee_key |-> GetIfDict(parent, "awardee_key", PyNone),
                             name |-> GetIfDict(parent, "clean_name", PyNone),
                             cage_code |-> GetIfDict(parent, "cage_code", PyNone)])
                ELSE PyNone,
            registration |->
                Display(Copy(a, [purpose |-> "purpose_of_registration",
                                 initial_date |-> "initial_registration_date",
                                 activation_date |-> "activation_date",
                                 expiration_date |-> "registration_expiration_date",
                                 last_update |-> "registration_last_update_date",
                                 sam_extract_code |-> "sam_extract_code"])),
            govt_business_poc |->
                Display(Copy(a, [first_name |-> "govt_bus_poc_first_name",
                                 last_name |-> "govt_bus_poc_last_name",
                                 title |-> "govt_bus_poc_title",
                                 phone |-> "govt_bus_poc_phone",
                                 email |-> "govt_bus_poc_email"]))])

\* "results = data.get("results", []); if not results: ...; a = results[0]"
get_awardee_details_return(a, data) ==
    LET results == Results(data)
    IN IF ~Truthy(results)
       THEN PyDict([error |-> PyStr("Awardee not found"), awardee |-> PyNone])
       ELSE IF results.k # "list" THEN TypeError
       ELSE Display([awardee |-> get_awardee_details_record(results.l[1])])

(* ----------------------- search_awardees_by_name ---------------------- *)
search_awardees_by_name_query(a) ==
    [clean_name |-> a.name,
     page_number |-> a.page_number,
     page_size |-> ClampPageSize(a.page_size)]

search_awardees_by_name_record(a) ==
    LET bus_type_info == Or(Get(a, "bus_type_info"), EmptyList)
    IN IF ~IsDict(a) THEN AttributeError ELSE Display(
        Copy(a, [awardee_key |-> "awardee_key", name |-> "clean_name",
                 legal_name |-> "legal_business_name",
                 cage_code |-> "cage_code", uei |-> "uei",
                 city |-> "physical_address_city",
                 state |-> "physical_address_province_or_state",
                 employee_count |-> "employee_count",
                 highergov_url |-> "path"])
        @@ [certifications |->
                IF bus_type_info.k # "list" THEN TypeError
                ELSE Descriptions(CertEntries(bus_type_info))])

search_awardees_by_name_return(a, data) ==
    LET awardees == ForEach(Results(data),
            [i \in DOMAIN Items(Results(data)) |->
                search_awardees_by_name_record(Items(Results(data))[i])])
    IN IF IsRaised(awardees) THEN awardees
       ELSE Display([total_count |-> TotalCount(data),
                     page |-> a.page_number,
                     awardees |-> awardees])

(* --------------------- get_awardee_certifications --------------------- *)
get_awardee_certifications_query(a) ==
    [cage_code |-> a.cage_code,
     uei |-> a.uei,
     primary_naics |-> a.primary_naics,
     page_size |-> ClampPageSize(a.page_size)]

get_awardee_certifications_record(a) ==
    LET bus_type_info == Or(Get(a, "bus_type_info"), EmptyList)
    IN IF ~IsDict(a) THEN AttributeError ELSE Display(
        Copy(a, [awardee_key |-> "awardee_key", name |-> "clean_name",
                 cage_code |-> "cage_code", uei |-> "uei",
                 highergov_url |-> "path"])
        @@ [certifications |->
                Display([all |-> Certifications(bus_type_info),
                         sba_certified |-> SbaCertified(bus_type_info),
                         self_certified |-> SelfCertified(bus_type_info),
                         count |->
                            IF bus_type_info.k # "list" THEN TypeError
                            ELSE PyInt(Len(CertEntries(bus_type_info)))])])

get_awardee_certifications_return(a, data) ==
    LET awardees == ForEach(Results(data),
            [i \in DOMAIN Items(Results(data)) |->
                get_awardee_certifications_record(Items(Results(data))[i])])
    IN IF IsRaised(awardees) THEN awardees
       ELSE Display([total_count |-> TotalCount(data),
                     awardees |-> awardees])

(* ---------------------------- search_people --------------------------- *)
search_people_query(a) ==
    [last_name |-> a.last_name,
     agency_key |-> a.agency_key,
     page_number |-> a.page_number,
     page_size |-> ClampPageSize(a.page_size)]

search_people_record(p) ==
    LET agency == Or(Get(p, "agency"), EmptyDict)
    IN IF ~IsDict(p) THEN AttributeError ELSE Display(
        Copy(p, [person_key |-> "person_key", first_name |-> "first_name",
                 last_name |-> "last_name", title |-> "title",
                 email |-> "email", phone |-> "phone",
                 highergov_url |-> "path"])
        @@ [agency |-> GetIfDict(agency, "agency_name", agency),
            agency_key |-> GetIfDict(agency, "agency_key", PyNone)])

search_people_return(a, data) ==
    LET people == ForEach(Results(data),
            [i \in DOMAIN Items(Results(data)) |->
                search_people_record(Items(Results(data))[i])])
    IN IF IsRaised(people) THEN people
       ELSE Display([total_count |-> TotalCount(data),
                     page |-> a.page_number,
                     people |-> people])

(* ---------------------- search_contract_vehicles ---------------------- *)
search_contract_vehicles_query(a) ==
    [vehicle_name |-> a.vehicle_name,
     agency_key |-> a.agency_key,
     naics_code |-> a.naics_code,
     page_number |-> a.page_number,
     page_size |-> ClampPageSize(a.page_size)]

search_contract_vehicles_record(v) ==
    LET agency == Or(Get(v, "agency"), EmptyDict)
    IN IF ~IsDict(v) THEN AttributeError ELSE Display(
        Copy(v, [vehicle_key |-> "vehicle_key", name |-> "vehicle_name",
                 abbreviation |-> "abbreviation",
                 vehicle_type |-> "vehicle_type",
                 ordering_start_date |-> "ordering_start_date",
                 ordering_end_date |-> "ordering_end_date",
                 highergov_url |-> "path"])
        @@ [agency |-> GetIfDict(agency, "agency_name", agency)])

search_contract_vehicles_return(a, data) ==
    LET vehicles == ForEach(Results(data),
            [i \in DOMAIN Items(Results(data)) |->
                search_contract_vehicles_record(Items(Results(data))[i])])
    IN IF IsRaised(vehicles) THEN vehicles
       ELSE Display([total_count |-> TotalCount(data),
                     page |-> a.page_number,
                     vehicles |-> vehicles])

(* ---------------------------- get_documents --------------------------- *)
get_documents_query(a) ==
    [related_key |-> a.related_key,
     page_number |-> a.page_number,
     page_size |-> ClampPageSize(a.page_size)]

\* a normalizer that rewrites the URL and attaches a computed expiry
get_documents_record_expiring(doc) ==
    Display(Copy(doc, [filename |-> "filename", file_type |-> "file_type",
                       file_size |-> "file_size"])
            @@ [download_url |-> PyStr(Format(Get(doc, "download_url"))),
                note |-> PyStr("URL expires in 60 minutes"),
                expires_at |-> PyStr("2026-11-06T01:00:00")])

get_documents_record(doc) ==
    Display(Copy(doc, [filename |-> "filename", file_type |-> "file_type",
                       file_size |-> "file_size",
                       download_url |-> "download_url"])
            @@ [note |-> PyStr("URL expires in 60 minutes")])

get_documents_return(a, data) ==
    LET documents == ForEach(Results(data),
            [i \in DOMAIN Items(Results(data)) |->
                get_documents_record(Items(Results(data))[i])])
    IN IF IsRaised(documents) THEN documents
       ELSE Display([total_count |-> TotalCount(data),
                     documents |-> documents])

(* --------------------------- search_agencies -------------------------- *)
search_agencies_query(a) ==
    [agency_key |-> a.agency_key,
     page_number |-> a.page_number,
     page_size |-> ClampPageSize(a.page_size)]

search_agencies_record(a) ==
    LET parent == Or(Get(a, "parent_agency"), EmptyDict)
    IN IF ~IsDict(a) THEN AttributeError ELSE Display(
        Copy(a, [agency_key |-> "agency_key", name |-> "agency_name",
                 abbreviation |-> "agency_abbreviation",
                 agency_type |-> "agency_type",
                 highergov_url |-> "path"])
        @@ [parent_agency |-> GetIfDict(parent, "agency_name", parent)])

search_agencies_return(a, data) ==
    LET agencies == ForEach(Results(data),
            [i \in DOMAIN Items(Results(data)) |->
                search_agencies_record(Items(Results(data))[i])])
    IN IF IsRaised(agencies) THEN agencies
       ELSE Display([total_count |-> TotalCount(data),
                     agencies |-> agencies])

(* ----------------------- lookup_naics, lookup_psc --------------------- *)
lookup_naics_query(a) ==
    [naics_code |-> a.naics_code,
     page_size |-> ClampPageSize(a.page_size)]

lookup_naics_record(n) ==
    Display(Copy(n, [naics_code |-> "naics_code", title |-> "naics_title"]))

lookup_naics_return(a, data) ==
    LET codes == ForEach(Results(data),
            [i \in DOMAIN Items(Results(data)) |->
                lookup_naics_record(Items(Results(data))[i])])
    IN IF IsRaised(codes) THEN codes ELSE PyDict([naics_codes |-> codes])

lookup_psc_query(a) ==
    [psc_code |-> a.psc_code,
     page_size |-> ClampPageSize(a.page_size)]

lookup_psc_record(p) ==
    Display(Copy(p, [psc_code |-> "psc_code", description |-> "description"]))

lookup_psc_return(a, data) ==
    LET codes == ForEach(Results(data),
            [i \in DOMAIN Items(Results(data)) |->
                lookup_psc_record(Items(Results(data))[i])])
    IN IF IsRaised(codes) THEN codes ELSE PyDict([psc_codes |-> codes])

(* -------------------------- operation catalog ------------------------- *)
Ops ==
    {"search_opportunities", "search_contracts", "search_grants",
     "search_awardees", "get_awardee_details", "search_awardees_by_name",
     "get_awardee_certifications", "search_people",
     "search_contract_vehicles", "get_documents", "search_agencies",
     "lookup_naics", "lookup_psc"}

Paging(size) == [page_number |-> PyInt(1), page_size |-> PyInt(size)]

\* each tool's parameters with their defaults (a mandatory one is bound by the caller)
Signature(o) ==
    CASE o = "search_opportunities" ->
            [captured_date |-> PyNone, posted_date |-> PyNone,
             agency_key |-> PyNone, opp_key |-> PyNone, search_id |-> PyNone,
             source_type |-> PyNone, ordering |-> PyNone] @@ Paging(25)
      [] o = "search_contracts" ->
            [naics_code |-> PyNone, psc_code |-> PyNone, awardee_key |-> PyNone,
             awardee_uei |-> PyNone, awarding_agency_key |-> PyNone,
             award_id |-> PyNone, search_id |-> PyNone,
             last_modified_date |-> PyNone, ordering |-> PyNone] @@ Paging(25)
      [] o = "search_grants" ->
            [awardee_key |-> PyNone, awardee_uei |-> PyNone,
             cfda_program_number |-> PyNone, awarding_agency_key |-> PyNone,
             search_id |-> PyNone, last_modified_date |-> PyNone,
             ordering |-> PyNone] @@ Paging(25)
      [] o = "search_awardees" ->
            [cage_code |-> PyNone, uei |-> PyNone, awardee_key_parent |-> PyNone,
             primary_naics |-> PyNone, registration_last_update_date |-> PyNone,
             ordering |-> PyNone] @@ Paging(25)
      [] o = "get_awardee_details" ->
            [awardee_key |-> PyNone, cage_code |-> PyNone, uei |-> PyNone]
      [] o = "search_awardees_by_name" -> [name |-> PyNone] @@ Paging(25)
      [] o = "get_awardee_certifications" ->
            [cage_code |-> PyNone, uei |-> PyNone, primary_naics |-> PyNone,
             page_size |-> PyInt(25)]
      [] o = "search_people" ->
            [last_name |-> PyNone, agency_key |-> PyNone] @@ Paging(25)
      [] o = "search_contract_vehicles" ->
            [vehicle_name |-> PyNone, agency_key |-> PyNone,
             naics_code |-> PyNone] @@ Paging(25)
      [] o = "get_documents" -> [related_key |-> PyNone] @@ Paging(25)
      [] o = "search_agencies" -> [agency_key |-> PyNone] @@ Paging(50)
      [] o = "lookup_naics" -> [naics_code |-> PyNone, page_size |-> PyInt(50)]
      [] o = "lookup_psc" -> [psc_code |-> PyNone, page_size |-> PyInt(50)]

\* parameters without a default
Mandatory(o) ==
    CASE o = "search_awardees_by_name" -> {"name"}
      [] o = "get_documents" -> {"related_key"}
      [] OTHER -> {}

Endpoint(o) ==
    CASE o = "search_opportunities" -> "opportunity"
      [] o = "search_contracts" -> "contract"
      [] o = "search_grants" -> "grant"
      [] o \in {"search_awardees", "get_awardee_details",
                "search_awardees_by_name", "get_awardee_certifications"} -> "awardee"
      [] o = "search_people" -> "people"
      [] o = "search_contract_vehicles" -> "contract_vehicle"
      [] o = "get_documents" -> "document"
      [] o = "search_agencies" -> "agency"
      [] o = "lookup_naics" -> "naics"
      [] o = "lookup_psc" -> "psc"

\* the early "return {"error": ...}" of a tool
Rejects(o, a) ==
    CASE o = "search_contracts" -> search_contracts_rejects(a)
      [] o = "search_grants" -> search_grants_rejects(a)
      [] o = "get_awardee_details" -> get_awardee_details_rejects(a)
      [] OTHER -> FALSE

RejectResult(o) ==
    CASE o = "search_contracts" -> search_contracts_error
      [] o = "search_grants" -> search_grants_error
      [] o = "get_awardee_details" -> get_awardee_details_error

\* the dict a tool hands to hg_get
Query(o, a, now) ==
    CASE o = "search_opportunities" -> search_opportunities_query(a, now)
      [] o = "search_contracts" -> search_contracts_query(a)
      [] o = "search_grants" -> search_grants_query(a)
      [] o = "search_awardees" -> search_awardees_query(a)
      [] o = "get_awardee_details" -> get_awardee_details_query(a)
      [] o = "search_awardees_by_name" -> search_awardees_by_name_query(a)
      [] o = "get_awardee_certifications" -> get_awardee_certifications_query(a)
      [] o = "search_people" -> search_people_query(a)
      [] o = "search_contract_vehicles" -> search_contract_vehicles_query(a)
      [] o = "get_documents" -> get_documents_query(a)
      [] o = "search_agencies" -> search_agencies_query(a)
      [] o = "lookup_naics" -> lookup_naics_query(a)
      [] o = "lookup_psc" -> lookup_psc_query(a)

\* what a tool returns (or raises) once hg_get has returned data
Return(o, a, data) ==
    CASE o = "search_opportunities" -> search_opportunities_return(a, data)
      [] o = "search_contracts" -> search_contracts_return(a, data)
      [] o = "search_grants" -> search_grants_return(a, data)
      [] o = "search_awardees" -> search_awardees_return(a, data)
      [] o = "get_awardee_details" -> get_awardee_details_return(a, data)
      [] o = "search_awardees_by_name" -> search_awardees_by_name_return(a, data)
      [] o = "get_awardee_certifications" ->
            get_awardee_certifications_return(a, data)
      [] o = "search_people" -> search_people_return(a, data)
      [] o = "search_contract_vehicles" -> search_contract_vehicles_return(a, data)
      [] o = "get_documents" -> get_documents_return(a, data)
      [] o = "search_agencies" -> search_agencies_return(a, data)
      [] o = "lookup_naics" -> lookup_naics_return(a, data)
      [] o = "lookup_psc" -> lookup_psc_return(a, data)

(* --------------------------- caller inputs ---------------------------- *)
IntParams ==
    {"agency_key", "awardee_key", "awarding_agency_key", "awardee_key_parent"}

\* the values a caller passes for a parameter: for a filter a falsy and a truthy one
ArgValues(p) ==
    CASE p = "page_number" -> {PyInt(2), PyInt(3)}
      [] p = "page_size" -> {PyInt(100), PyInt(101), PyInt(500)}
      [] p \in IntParams -> {PyInt(0), PyInt(7)}
      [] p = "ordering" -> {PyStr(""), PyStr("-due_date")}
      [] OTHER -> {PyStr(""), PyStr("541512")}

SubsetsUpTo(S, n) == {T \in SUBSET S : Cardinality(T) <= n}

SeqsUpTo(E, n) == UNION {[1..m -> E] : m \in 0..n}

\* all ways to give each name of S one of its values[name]
RECURSIVE Assignments(_, _)
Assignments(S, values) ==
    IF S = {} THEN {EmptyMap}
    ELSE LET x == CHOOSE y \in S : TRUE
         IN {(x :> val) @@ g : val \in values[x], g \in Assignments(S \ {x}, values)}

\* a call binds the mandatory parameters and at most MaxArgs others; the rest default
CallerArgs(o) ==
    UNION {{given @@ Signature(o) :
                given \in Assignments(S \cup Mandatory(o),
                                       [p \in DOMAIN Signature(o) |-> ArgValues(p)])} :
           S \in SubsetsUpTo(DOMAIN Signature(o) \ Mandatory(o), MaxArgs)}

\* one well-formed call per tool
TypicalArgs(o) ==
    CASE o \in {"search_contracts", "search_grants", "get_awardee_details"} ->
            [Signature(o) EXCEPT !.awardee_key = PyInt(7)]
      [] o = "search_awardees_by_name" ->
            [Signature(o) EXCEPT !.name = PyStr("Acme")]
      [] o = "get_documents" ->
            [Signature(o) EXCEPT !.related_key = PyStr("doc-1"),
                                 !.page_number = PyInt(3)]
      [] o \in {"lookup_naics", "lookup_psc", "get_awardee_certifications"} ->
            Signature(o)
      [] OTHER -> [Signature(o) EXCEPT !.page_number = PyInt(3)]

(* -------------------------- upstream inputs --------------------------- *)
Agency == PyDict([agency_name |-> PyStr("DoD"), agency_key |-> PyInt(7)])
Awardee ==
    PyDict([awardee_key |-> PyInt(7), clean_name |-> PyStr("Acme"),
            uei |-> PyStr("UEI1"), cage_code |-> PyStr("34ZB1")])
Naics ==
    PyDict([naics_code |-> PyStr("541512"), naics_title |-> PyStr("Computer Systems Design")])
Psc == PyDict([psc_code |-> PyStr("D302")])
Contact ==
    PyDict([contact_name |-> PyStr("Jane Smith"),
            contact_email |-> PyStr("jane@agency.gov"),
            contact_phone |-> PyStr("555-0100")])

\* a nested reference arrives as null, a bare scalar or an object (or is absent)
Shapes(scalar, object) == {PyNone, scalar, object}

CodeItems(key) == {PyStr("541512"), PyDict(key :> PyStr("236220"))}

CertItems ==
    {PyDict([bus_type |-> PyStr("XX"), bus_type_description |-> PyStr("HUBZone"),
             cert_flag |-> PyBool(TRUE)]),
     PyDict([bus_type |-> PyStr("A2"), bus_type_description |-> PyStr("WOSB"),
             cert_flag |-> PyBool(FALSE)]),
     PyDict([bus_type_description |-> PyStr("8(a)")]),
     PyDict([bus_type_description |-> PyStr("SDVOSB"), cert_flag |-> PyNone]),
     PyStr("Minority-Owned")}

Lists(items) == {PyNone} \cup {PyList(q) : q \in SeqsUpTo(items, MaxLen)}

\* the upstream fields the model varies, per tool, in groups: a record carries
\* any subset of the fields of one group, each in any of its shapes
Groups(o) ==
    CASE o = "search_opportunities" ->
            {{"agency", "naics_code", "psc_code", "primary_contact_email"},
             {"opp_key"}}
      [] o = "search_contracts" ->
            {{"awardee", "awarding_agency", "naics_code", "psc_code"},
             {"contract_key"}}
      [] o = "search_grants" -> {{"awardee", "awarding_agency"}, {"grant_key"}}
      [] o \in {"search_awardees", "get_awardee_details"} ->
            {{"primary_naics", "awardee_key_parent", "clean_name"},
             {"naics_codes", "psc_codes"},
             {"bus_type_info"},
             {"govt_bus_poc_first_name", "govt_bus_poc_last_name"}}
      [] o \in {"search_awardees_by_name", "get_awardee_certifications"} ->
            {{"bus_type_info"}, {"clean_name"}}
      [] o = "search_people" -> {{"person_key", "agency"}}
      [] o = "search_contract_vehicles" -> {{"vehicle_key", "agency"}}
      [] o = "get_documents" -> {{"filename", "download_url", "expires_at"}}
      [] o = "search_agencies" -> {{"agency_name", "parent_agency"}}
      [] o = "lookup_naics" -> {{"naics_code", "naics_title"}}
      [] o = "lookup_psc" -> {{"psc_code", "description"}}

Fields(o) == UNION Groups(o)

\* a field no tool reads
Unread == {EmptyMap, [internal_score |-> PyStr("K1")]}

FieldValues(o, f) ==
    CASE f \in {"agency", "awarding_agency", "parent_agency"} ->
            Shapes(PyStr("DoD"), Agency)
      [] f = "awardee" -> Shapes(PyStr("Acme"), Awardee)
      [] f = "awardee_key_parent" -> Shapes(PyInt(7), Awardee)
      [] f \in {"naics_code", "primary_naics"} /\ o # "lookup_naics" ->
            Shapes(PyStr("541512"), Naics)
      [] f = "psc_code" /\ o # "lookup_psc" -> Shapes(PyStr("D302"), Psc)
      [] f = "primary_contact_email" -> Shapes(PyStr("jane@agency.gov"), Contact)
      [] f = "naics_codes" -> Lists(CodeItems("naics_code"))
      [] f = "psc_codes" -> Lists(CodeItems("psc_code"))
      [] f = "bus_type_info" -> Lists(CertItems)
      [] f = "govt_bus_poc_first_name" -> {PyNone, PyStr(""), PyStr("Jane")}
      [] f = "govt_bus_poc_last_name" -> {PyNone, PyStr(""), PyStr("Smith")}
      [] f = "download_url" -> {PyNone, PyStr("https://dl.example/1?sig=a")}
      [] OTHER -> {PyStr("K1")}

\* the upstream records: the fields of one group, with or without an unread field
Records(o) ==
    UNION {{PyDict(g @@ x) :
                g \in Assignments(S, [f \in Fields(o) |-> FieldValues(o, f)]),
                x \in Unread} :
           S \in UNION {SUBSET G : G \in Groups(o)}}

\* a record with every nested reference in its object shape and no list field
PlainRecord(o) ==
    PyDict([f \in Fields(o) \ {"naics_codes", "psc_codes", "bus_type_info"} |->
              CHOOSE val \in FieldValues(o, f) :
                  /\ Truthy(val)
                  /\ \A w \in FieldValues(o, f) : IsDict(w) => val = w])

\* the metadata a response carries besides its results
Metas ==
    {EmptyMap,
     [meta |-> PyNone],
     [meta |-> EmptyDict],
     [meta |-> PyDict([total_count |-> PyNone])],
     [meta |-> PyDict([total_count |-> PyInt(137)])],
     [meta |-> PyDict([total_count |-> PyInt(137), page |-> PyInt(9)])]}

SoundMeta == [meta |-> PyDict([total_count |-> PyInt(137)])]

\* responses of every metadata shape with one plain record, and responses with
\* sound metadata and no result list or up to MaxResults plain records
Responses(o) ==
    {PyDict(m @@ [results |-> PyList(<<PlainRecord(o)>>)]) : m \in Metas}
    \cup {PyDict(SoundMeta)}
    \cup {PyDict(SoundMeta @@ [results |-> PyList([i \in 1..n |-> PlainRecord(o)])]) :
            n \in 0..MaxResults}

\* responses with sound metadata and one record of any shape
RecordResponses(o) ==
    {PyDict(SoundMeta @@ [results |-> PyList(<<r>>)]) : r \in Records(o)}

(* ---------------------------- state machine --------------------------- *)
VARIABLES
    pc,         \* "idle", "awaiting" (suspended in hg_get), "returned", "raised"
    op,         \* the tool invoked
    args,       \* its arguments after defaulting
    today,      \* what today() returns
    request,    \* the GET issued by hg_get
    response,   \* the JSON hg_get returned
    result,     \* the tool's return value, or the exception it raised
    calls,      \* GETs issued so far
    tasks,      \* the invocations running concurrently on the event loop
    config      \* the module globals every invocation reads

vars == <<pc, op, args, today, request, response, result, calls, tasks, config>>

NoRequest == [endpoint |-> "", params |-> EmptyMap]

Dates == {"2026-11-06"}

\* r.raise_for_status(), and client.get failing to connect or timing out
TransportErrors == {"HTTPStatusError", "ConnectError", "TimeoutException"}

BASE_URL == "https://www.highergov.com/api-external"

Globals == [api_key |-> HIGHERGOV_API_KEY, base_url |-> BASE_URL]

Tasks == 1..MaxTasks

\* an invocation not started yet
IdleTask ==
    [pc |-> "idle", op |-> "none", args |-> EmptyMap, request |-> NoRequest,
     response |-> PyNone, result |-> PyNone]

Init ==
    /\ pc = "idle"
    /\ op = "none"
    /\ args = EmptyMap
    /\ today \in Dates
    /\ request = NoRequest
    /\ response = PyNone
    /\ result = PyNone
    /\ calls = 0
    /\ tasks = [t \in Tasks |-> IdleTask]
    /\ config = Globals

\* a tool that fetches before it validates: the call goes out even when the
\* required filters are missing
CallUnchecked(o, a) ==
    /\ pc = "idle"
    /\ op' = o
    /\ args' = a
    /\ request' = hg_get(Endpoint(o), Query(o, a, today))
    /\ calls' = calls + 1
    /\ IF Rejects(o, a)
       THEN pc' = "returned" /\ result' = RejectResult(o)
       ELSE pc' = "awaiting" /\ UNCHANGED result
    /\ UNCHANGED <<today, response, tasks, config>>

\* a tool runs up to its early return or to "await hg_get(...)"
Call(o, a) ==
    /\ pc = "idle"
    /\ op' = o
    /\ args' = a
    /\ IF Rejects(o, a)
       THEN /\ pc' = "returned"
            /\ result' = RejectResult(o)
            /\ UNCHANGED <<request, calls>>
       ELSE /\ pc' = "awaiting"
            /\ request' = hg_get(Endpoint(o), Query(o, a, today))
            /\ calls' = calls + 1
            /\ UNCHANGED result
    /\ UNCHANGED <<today, response, tasks, config>>

\* hg_get returns r.json(); the tool normalizes and returns
Receive(data) ==
    /\ pc = "awaiting"
    /\ response' = data
    /\ result' = Return(op, args, data)
    /\ pc' = IF IsRaised(result') THEN "raised" ELSE "returned"
    /\ UNCHANGED <<op, args, today, request, calls, tasks, config>>

\* a tool that caught the failure and returned an empty envelope
TransportFallback(e) ==
    /\ pc = "awaiting"
    /\ result' = Return(op, args, EmptyDict)
    /\ pc' = "returned"
    /\ UNCHANGED <<op, args, today, request, response, calls, tasks, config>>

\* client.get or r.raise_for_status() raises; the tool does not catch it
TransportFail(e) ==
    /\ pc = "awaiting"
    /\ result' = Raised(e)
    /\ pc' = "raised"
    /\ UNCHANGED <<op, args, today, request, response, calls, tasks, config>>

Next ==
    \/ \E o \in Ops : \E a \in CallerArgs(o) : Call(o, a)
    \/ pc = "awaiting" /\ \E data \in Responses(op) : Receive(data)
    \/ \E e \in TransportErrors : TransportFail(e)

Spec == Init /\ [][Next]_vars

\* normalization alone: one well-formed call per tool, any record shape
NextNorm ==
    \/ \E o \in Ops : Call(o, TypicalArgs(o))
    \/ pc = "awaiting" /\ \E data \in RecordResponses(op) : Receive(data)
    \/ \E e \in TransportErrors : TransportFail(e)

SpecNorm == Init /\ [][NextNorm]_vars

(* ----------------------- concurrent invocations ----------------------- *)
\* the responses of the concurrent runs: sound metadata, one record or none
TaskResponses(o) ==
    {PyDict(SoundMeta @@ [results |-> PyList([i \in 1..n |-> PlainRecord(o)])]) :
        n \in 0..1}

\* the failure of the concurrent runs: an error status
TaskErrors == {"HTTPStatusError"}

\* the state of an invocation that ran up to its early return or to its await
Started(o, a) ==
    IF Rejects(o, a)
    THEN [pc |-> "returned", op |-> o, args |-> a, request |-> NoRequest,
          response |-> PyNone, result |-> RejectResult(o)]
    ELSE [pc |-> "awaiting", op |-> o, args |-> a,
          request |-> hg_get(Endpoint(o), Query(o, a, today)),
          response |-> PyNone, result |-> PyNone]

\* a params dict shared by the invocations: a new call overwrites the
\* parameters of every call still in flight
TaskCallShared(t, o, a) ==
    /\ tasks[t].pc = "idle"
    /\ tasks' = [u \in Tasks |->
                    IF u = t THEN Started(o, a)
                    ELSE IF tasks[u].pc = "awaiting"
                    THEN [tasks[u] EXCEPT !.request = Started(o, a).request]
                    ELSE tasks[u]]
    /\ UNCHANGED <<pc, op, args, today, request, response, result, calls, config>>

\* invocation t runs up to its early return or to "await hg_get(...)"
TaskCall(t, o, a) ==
    /\ tasks[t].pc = "idle"
    /\ tasks' = [tasks EXCEPT ![t] = Started(o, a)]
    /\ UNCHANGED <<pc, op, args, today, request, response, result, calls, config>>

\* the round trip of invocation t completes; it normalizes and returns
TaskReceive(t, data) ==
    /\ tasks[t].pc = "awaiting"
    /\ LET res == Return(tasks[t].op, tasks[t].args, data)
       IN tasks' = [tasks EXCEPT ![t].response = data,
                                 ![t].result = res,
                                 ![t].pc = IF IsRaised(res) THEN "raised"
                                           ELSE "returned"]
    /\ UNCHANGED <<pc, op, args, today, request, response, result, calls, config>>

\* the round trip of invocation t fails
TaskFail(t, e) ==
    /\ tasks[t].pc = "awaiting"
    /\ tasks' = [tasks EXCEPT ![t].result = Raised(e), ![t].pc = "raised"]
    /\ UNCHANGED <<pc, op, args, today, request, response, result, calls, config>>

NextConc ==
    \/ \E t \in Tasks : \E o \in Ops : TaskCall(t, o, TypicalArgs(o))
    \/ \E t \in Tasks :
          /\ tasks[t].pc = "awaiting"
          /\ \E data \in TaskResponses(tasks[t].op) : TaskReceive(t, data)
    \/ \E t \in Tasks : \E e \in TaskErrors : TaskFail(t, e)

SpecConc == Init /\ [][NextConc]_vars

(* ------------------------------ properties ---------------------------- *)
Sent == request.params
Issued == request # NoRequest
Received == response # PyNone

\* the first record of the returned list under key
First(key) == result.d[key].l[1]

\* the upstream record of a one-record response
Upstream == response.d.results.l[1]

PageSizeOps == {o \in Ops : "page_size" \in DOMAIN Signature(o)}
PageNumberOps == {o \in Ops : "page_number" \in DOMAIN Signature(o)}
RejectOps == {"search_contracts", "search_grants", "get_awardee_details"}

\* the semantic filters of a tool: its parameters but the paging ones
Filters(o) == DOMAIN Signature(o) \ {"page_number", "page_size"}

\* the upstream name of a parameter
UpstreamKey(o, p) ==
    IF o = "search_awardees_by_name" /\ p = "name" THEN "clean_name" ELSE p

RequiredFilters(o) ==
    CASE o = "search_opportunities" -> search_opportunities_required
      [] o = "search_contracts" -> search_contracts_required
      [] o = "search_grants" -> search_grants_required
      [] o = "get_awardee_details" -> get_awardee_details_required

\* C1: for every tool that accepts page_size, the page_size sent upstream is never
\* above 100: it is 100 when the caller's value exceeds 100, else the caller's value.
C1_PageSizeClamped ==
    (Issued /\ op \in PageSizeOps) =>
        /\ "page_size" \in DOMAIN Sent
        /\ Sent.page_size.k = "int"
        /\ Sent.page_size.n <= 100
        /\ Sent.page_size.n = IF args.page_size.n > 100 THEN 100 ELSE args.page_size.n

C1_Witness ==
    /\ Issued
    /\ op = "lookup_naics"
    /\ args.page_size = PyInt(500)
    /\ Sent.page_size = PyInt(100)

Falsy == {PyNone, PyStr(""), PyInt(0)}

\* the filters a tool replaces by a default, with the default it sends
C2_Default(p) ==
    CASE /\ p = "captured_date"
         /\ op = "search_opportunities"
         /\ \A q \in {"captured_date", "posted_date", "agency_key", "opp_key",
                      "search_id"} : args[q] \in Falsy -> PyStr(today)
      [] /\ p = "ordering"
         /\ op = "search_opportunities"
         /\ args[p] \in Falsy -> PyStr("-captured_date")
      [] /\ p = "ordering"
         /\ op \in {"search_contracts", "search_grants"}
         /\ args[p] \in Falsy -> PyStr("-last_modified_date")
      [] OTHER -> PyNone

C3_Original ==
    (pc # "idle" /\ op \in RejectOps
        /\ \A p \in RequiredFilters(op) : args[p] = PyNone) =>
        /\ pc = "returned"
        /\ IsDict(result)
        /\ "error" \in DOMAIN result.d
        /\ result.d.error.k = "str"
        /\ result.d.error.s # ""
        /\ \E key \in DOMAIN result.d : result.d[key] = EmptyList

\* C4 as stated: a call to a rejecting tool with at least one required filter
\* present (non-null, whatever its value) is not rejected: it goes upstream with
\* that filter in the outgoing parameters.
C4_Original ==
    (pc # "idle" /\ op \in RejectOps) =>
        \A p \in RequiredFilters(op) :
            args[p] # PyNone =>
                /\ Issued
                /\ p \in DOMAIN Sent
                /\ Sent[p] = args[p]

\* C5 as stated: search_opportunities always goes upstream; it sends captured_date
\* = today exactly when all five required filters are absent, and otherwise sends
\* captured_date exactly as the caller supplied it (not at all if absent).
C5_Original ==
    (pc # "idle" /\ op = "search_opportunities") =>
        /\ Issued
        /\ IF \A p \in RequiredFilters(op) : args[p] = PyNone
           THEN /\ "captured_date" \in DOMAIN Sent
                /\ Sent.captured_date = PyStr(today)
           ELSE IF args.captured_date = PyNone
           THEN "captured_date" \notin DOMAIN Sent
           ELSE /\ "captured_date" \in DOMAIN Sent
                /\ Sent.captured_date = args.captured_date

\* C6 as stated: every tool that accepts page_number and returns a pagination
\* envelope puts the caller's page_number into the envelope's page field.
C6_Original ==
    (pc = "returned" /\ op \in PageNumberOps /\ "total_count" \in DOMAIN result.d) =>
        /\ "page" \in DOMAIN result.d
        /\ result.d.page = args.page_number

EnvelopeOps == Ops \ {"get_awardee_details", "lookup_naics", "lookup_psc"}

\* the total_count of the response's metadata block, 0 when the block or the
\* count is absent or null
C7_Expected ==
    LET data == response.d
    IN IF "meta" \in DOMAIN data /\ IsDict(data.meta)
          /\ "total_count" \in DOMAIN data.meta.d
          /\ data.meta.d.total_count # PyNone
       THEN data.meta.d.total_count
       ELSE PyInt(0)

\* C7 as stated: for every successful upstream response a tool with a pagination
\* envelope returns (does not fail), with total_count that of the metadata block,
\* or 0 when the block or its total_count is absent or null.
C7_Original ==
    (Received /\ op \in EnvelopeOps) =>
        /\ pc = "returned"
        /\ "total_count" \in DOMAIN result.d
        /\ result.d.total_count = C7_Expected

\* C8 as stated: whichever of the three shapes each nested reference field of an
\* upstream record takes, normalization does not fail: the tool returns a record.
C8_Original ==
    Received =>
        /\ pc = "returned"
        /\ IsDict(result)

CodeOps ==
    {"search_opportunities", "search_contracts", "search_awardees",
     "get_awardee_details"}

CodeFields == {"naics_code", "psc_code", "primary_naics"}
CodeListFields == {"naics_codes", "psc_codes"}

\* the sub-field that holds the code in the object shape of field f
C9_Key(f) == IF f \in {"psc_code", "psc_codes"} THEN "psc_code" ELSE "naics_code"

\* the code c of a field given bare as c or as an object whose code sub-field is c
C9_Code(x, f) == IF IsDict(x) THEN x.d[C9_Key(f)] ELSE x

\* where the tool puts the normalized value of code field f
C9_Out(f) ==
    CASE op = "search_opportunities" -> First("opportunities").d[f]
      [] op = "search_contracts" -> First("contracts").d[f]
      [] op = "search_awardees" -> First("awardees").d[f]
      [] op = "get_awardee_details" /\ f = "primary_naics" ->
            result.d.awardee.d.naics_codes.d.primary
      [] op = "get_awardee_details" /\ f = "naics_codes" ->
            result.d.awardee.d.naics_codes.d.all_codes
      [] op = "get_awardee_details" /\ f = "psc_codes" ->
            result.d.awardee.d.psc_codes

\* C9 as stated: in every tool that outputs a NAICS or PSC code, a code field
\* given bare as c and one given as an object with code c both normalize to c;
\* an awardee's code lists normalize element by element, keeping length and order.
C9_Original ==
    (Received /\ op \in CodeOps
        /\ DOMAIN Upstream.d \subseteq
              CodeFields \cup CodeListFields \cup {"internal_score"}) =>
        /\ pc = "returned"
        /\ \A f \in DOMAIN Upstream.d \cap CodeFields :
              Upstream.d[f] # PyNone => C9_Out(f) = C9_Code(Upstream.d[f], f)
        /\ \A f \in DOMAIN Upstream.d \cap CodeListFields :
              Upstream.d[f] # PyNone =>
                  C9_Out(f).l = [i \in 1..Len(Upstream.d[f].l) |->
                                    C9_Code(Upstream.d[f].l[i], f)]

CertOps == {"get_awardee_details", "get_awardee_certifications"}

\* the certifications object of the returned awardee
C10_Certs ==
    IF op = "get_awardee_details" THEN result.d.awardee.d.certifications.d
    ELSE First("awardees").d.certifications.d

C10_Flagged(cert) == cert.d.sba_certified = PyBool(TRUE)

C10_Unflagged(cert) == ~C10_Flagged(cert)

C10_Descriptions(certs) == [i \in 1..Len(certs) |-> certs[i].d.description]

\* C10: in get_awardee_details and get_awardee_certifications, sba_certified is,
\* in order, the descriptions of exactly the entries of the full list whose
\* sba_certified flag is true, self_certified those of exactly the others, and
\* the two lengths add up to the length of the full list.
C10_Buckets ==
    (pc = "returned" /\ Received /\ op \in CertOps) =>
        /\ C10_Certs.sba_certified.l =
              C10_Descriptions(SelectSeq(C10_Certs.all.l, C10_Flagged))
        /\ C10_Certs.self_certified.l =
              C10_Descriptions(SelectSeq(C10_Certs.all.l, C10_Unflagged))
        /\ Len(C10_Certs.sba_certified.l) + Len(C10_Certs.self_certified.l)
              = Len(C10_Certs.all.l)

C10_Witness ==
    /\ pc = "returned"
    /\ Received
    /\ op = "get_awardee_details"
    /\ Len(C10_Certs.all.l) = 2
    /\ C10_Certs.sba_certified = PyList(<<PyStr("HUBZone")>>)
    /\ C10_Certs.self_certified = PyList(<<PyStr("WOSB")>>)

\* the parts of the point-of-contact name the upstream record holds: a part that
\* is missing, null or empty is not present
C11_Parts(rec) ==
    SelectSeq(<<"govt_bus_poc_first_name", "govt_bus_poc_last_name">>,
              LAMBDA f : f \in DOMAIN rec.d /\ rec.d[f] \notin {PyNone, PyStr("")})

C11_Joined(rec) ==
    LET parts == C11_Parts(rec)
    IN IF Len(parts) = 2
       THEN PyStr(rec.d[parts[1]].s \o " " \o rec.d[parts[2]].s)
       ELSE rec.d[parts[1]]

\* C11 as stated: in search_awardees the point-of-contact name is the present
\* name parts joined by one space, and null or empty when no part is present.
C11_Original ==
    (pc = "returned" /\ Received /\ op = "search_awardees") =>
        LET name == First("awardees").d.govt_poc.d.name
        IN IF C11_Parts(Upstream) = << >>
           THEN name \in {PyNone, PyStr("")}
           ELSE name = C11_Joined(Upstream)

\* the same with no null name part upstream
C11_NoNull ==
    (pc = "returned" /\ Received /\ op = "search_awardees"
        /\ \A f \in DOMAIN Upstream.d : Upstream.d[f] # PyNone) =>
        LET name == First("awardees").d.govt_poc.d.name
        IN IF C11_Parts(Upstream) = << >>
           THEN name \in {PyNone, PyStr("")}
           ELSE name = C11_Joined(Upstream)

\* C12: a transport failure is all-or-nothing: an invocation whose upstream call
\* ended without a response has failed with that transport failure, after one
\* call and no retry, and has returned no envelope.
C12_AllOrNothing ==
    (Issued /\ ~Received /\ pc # "awaiting") =>
        /\ pc = "raised"
        /\ result \in {Raised(e) : e \in TransportErrors}
        /\ calls = 1

C12_Witness ==
    /\ pc = "raised"
    /\ ~Received
    /\ op = "search_contracts"
    /\ result = Raised("HTTPStatusError")
    /\ calls = 1

OrderingOps == {o \in Ops : "ordering" \in DOMAIN Signature(o)}

\* what is sent as ordering: the default of the resource when the tool has one
C13_Default(o) ==
    CASE o = "search_opportunities" -> {[ordering |-> PyStr("-captured_date")]}
      [] o \in {"search_contracts", "search_grants"} ->
            {[ordering |-> PyStr("-last_modified_date")]}
      [] o = "search_awardees" -> {EmptyMap}

C13_SentOrdering == [p \in DOMAIN Sent \cap {"ordering"} |-> Sent[p]]

\* C13 as stated: for every tool with an ordering filter, the ordering sent is
\* exactly the caller's value whenever the caller specifies one, and the default
\* of the resource is used only when the caller specifies none.
C13_Original ==
    (Issued /\ op \in OrderingOps) =>
        IF args.ordering # PyNone
        THEN C13_SentOrdering = [ordering |-> args.ordering]
        ELSE C13_SentOrdering \in C13_Default(op)

\* the same for a caller's ordering that is not the empty string
C13_NonEmpty ==
    (Issued /\ op \in OrderingOps /\ args.ordering # PyStr("")) =>
        IF args.ordering # PyNone
        THEN C13_SentOrdering = [ordering |-> args.ordering]
        ELSE C13_SentOrdering \in C13_Default(op)

\* the key of the record list in the envelope of a tool
C14_ListKey(o) ==
    CASE o = "search_opportunities" -> "opportunities"
      [] o = "search_contracts" -> "contracts"
      [] o = "search_grants" -> "grants"
      [] o \in {"search_awardees", "search_awardees_by_name",
                "get_awardee_certifications"} -> "awardees"
      [] o = "search_people" -> "people"
      [] o = "search_contract_vehicles" -> "vehicles"
      [] o = "get_documents" -> "documents"
      [] o = "search_agencies" -> "agencies"
      [] o = "lookup_naics" -> "naics_codes"
      [] o = "lookup_psc" -> "psc_codes"

\* the normalized record of a one-record result
C14_Record(o, res) ==
    IF o = "get_awardee_details" THEN res.d.awardee
    ELSE res.d[C14_ListKey(o)].l[1]

C14_Response(rec) == PyDict(SoundMeta @@ [results |-> PyList(<<rec>>)])

\* the upstream fields of the model that tool o does not read
C14_Unread(o) ==
    {"internal_score"} \cup (IF o = "get_documents" THEN {"expires_at"} ELSE {})

\* the upstream record without the fields the tool does not read
C14_Read(o, rec) == PyDict([f \in DOMAIN rec.d \ C14_Unread(o) |-> rec.d[f]])

\* C14: normalization is a strict projection: a normalized record has the fixed
\* key set of its tool (that of the normalized empty record) whatever the
\* upstream record holds, and a record gives the same outcome as the record
\* that differs from it only by lacking the fields the tool does not read.
C14_Projection ==
    (Received /\ pc # "awaiting") =>
        /\ result = Return(op, args, C14_Response(C14_Read(op, Upstream)))
        /\ pc = "returned" =>
              DOMAIN C14_Record(op, result).d =
                  DOMAIN C14_Record(op, Return(op, args, C14_Response(EmptyDict))).d

C14_Witness ==
    /\ pc = "returned"
    /\ Received
    /\ op = "search_grants"
    /\ "internal_score" \in DOMAIN Upstream.d
    /\ "awardee" \in DOMAIN Upstream.d
    /\ C14_Record(op, result).d.awardee_name = PyStr("Acme")

C15_Note == PyStr("URL expires in 60 minutes")

\* C15: in get_documents, every normalized document carries the upstream
\* download_url unchanged (null when the record has none) and the one fixed
\* 60-minute note, and holds nothing else than filename, file_type and
\* file_size: no expiry timestamp, also when upstream sends one.
C15_DownloadUrl ==
    (pc = "returned" /\ Received /\ op = "get_documents") =>
        LET docs == result.d.documents.l
            ups == response.d.results.l
        IN /\ Len(docs) = Len(ups)
           /\ \A i \in 1..Len(docs) :
                /\ docs[i].d.download_url = DictGet(ups[i].d, "download_url", PyNone)
                /\ docs[i].d.note = C15_Note
                /\ DOMAIN docs[i].d =
                      {"filename", "file_type", "file_size", "download_url", "note"}

C15_Witness ==
    /\ pc = "returned"
    /\ op = "get_documents"
    /\ Received
    /\ "expires_at" \in DOMAIN Upstream.d
    /\ First("documents").d.download_url = PyStr("https://dl.example/1?sig=a")
    /\ First("documents").d.note = C15_Note

\* the calls an invocation has made, by where it stands
C16_Calls ==
    /\ calls <= 1
    /\ (pc # "idle" /\ Rejects(op, args)) =>
          /\ calls = 0
          /\ ~Issued
          /\ ~Received
          /\ pc = "returned"
    /\ (pc # "idle" /\ ~Rejects(op, args)) =>
          /\ calls = 1
          /\ request = hg_get(Endpoint(op), Query(op, args, today))
    /\ pc = "awaiting" => (result = PyNone /\ ~Received)
    /\ Received => (calls = 1 /\ pc \in {"returned", "raised"})

\* the call is issued by the step that leaves "idle", and a result appears
\* only in a later step, with no further call
C16_Order ==
    [][/\ calls' # calls => (pc = "idle" /\ pc' = "awaiting" /\ result' = PyNone)
       /\ result' # result => (pc \in {"idle", "awaiting"} /\ pc' \in {"returned", "raised"})
       /\ (pc = "awaiting" /\ result' # result) => calls' = calls]_vars

\* C16: an invocation performs at most one upstream call: none when the
\* required-filter validation rejects it, and otherwise exactly one, whose
\* parameters are those translated from the arguments, and which is issued
\* before anything is normalized or returned.
C16_OneCall == []C16_Calls /\ C16_Order

C16_Witness ==
    /\ pc = "returned"
    /\ op = "get_awardee_details"
    /\ ~Rejects(op, args)
    /\ calls = 1
    /\ Received
    /\ "awardee" \in DOMAIN result.d
    /\ result.d.awardee # PyNone

\* what each invocation holds, by where it stands: the request derived from its
\* own arguments and the configured key, the result built from its own response
C17_Own ==
    /\ config = Globals
    /\ \A t \in Tasks :
          LET inv == tasks[t]
          IN /\ inv.pc = "awaiting" =>
                  /\ inv.request = hg_get(Endpoint(inv.op),
                                          Query(inv.op, inv.args, today))
                  /\ inv.request.params.api_key = config.api_key
                  /\ inv.result = PyNone
             /\ (inv.pc \in {"returned", "raised"} /\ inv.response # PyNone) =>
                  /\ inv.request = hg_get(Endpoint(inv.op),
                                          Query(inv.op, inv.args, today))
                  /\ inv.result = Return(inv.op, inv.args, inv.response)

\* a step is the step of one invocation: it leaves the globals and every other
\* invocation as they are
C17_Isolated ==
    [][/\ config' = config
       /\ today' = today
       /\ \E t \in Tasks : \A u \in Tasks \ {t} : tasks'[u] = tasks[u]]_vars

\* C17: in every interleaving of invocations suspended at their round trip,
\* each invocation sends the parameters derived from its own arguments plus the
\* configured API key and returns the envelope built from its own response, and
\* no invocation changes the API key, the base URL or what another one holds.
C17_NoInterference == []C17_Own /\ C17_Isolated

\* one invocation is suspended at its round trip, holding its own request,
\* while another has returned the envelope of its own response
C17_Witness ==
    /\ tasks[1].pc = "awaiting"
    /\ tasks[1].op = "search_people"
    /\ tasks[1].request.endpoint = "people"
    /\ tasks[2].pc = "returned"
    /\ tasks[2].op = "search_agencies"
    /\ tasks[2].response # PyNone
    /\ "agencies" \in DOMAIN tasks[2].result.d

=============================================================================
